---- MODULE Spec2Model ----
(***************************************************************************)
(* Model of config/coldfront_auth.py: the OIDC authentication backends of  *)
(* the ORCD rental portal (BaseOIDCBackend, GlobusOIDCBackend).            *)
(*                                                                         *)
(* Python values are modelled as follows.                                  *)
(*   str   a tuple of one-character strings, "cnh" is <<"c","n","h">>      *)
(*   None  the tuple <<"None">> (no str has a several-character element)   *)
(*   dict  a function whose DOMAIN is the set of keys that are present     *)
(*   list  a sequence                                                      *)
(***************************************************************************)
EXTENDS Naturals, Sequences, FiniteSets, TLC

VARIABLES
    MIT_IDP_REQUIRED,     \* settings.MIT_IDP_REQUIRED (absent counts as False)
    UserProfileImported,  \* whether "UserProfile is not None" after the import
    users,                \* rows of UserModel.objects
    profiles,             \* usernames of the users that own a UserProfile row
    last,                 \* the first worker's call: arguments, progress, outcome
    other,                \* the second worker's call, running at the same time
    ncalls                \* the number of calls started so far

vars == <<MIT_IDP_REQUIRED, UserProfileImported, users, profiles, last, other, ncalls>>

\* ------------------------------------------------------------------ bounds
MaxKeys == 3
MaxIdentities == 2
MaxStrLen == 3
MaxCalls == 2

\* ------------------------------------------------------- Python primitives
None == <<"None">>

\* Python truthiness of a str-or-None value: None and '' are falsy.
Truthy(s) == s # None /\ s # <<>>

\* d.get(k, default)
Get(d, k, default) == IF k \in DOMAIN d THEN d[k] ELSE default

\* The dicts that hold at most the key k, with a value of Vals when present.
Field(k, Vals) == {<<>>} \cup {k :> v : v \in Vals}

\* c in s
Contains(s, c) == \E i \in 1..Len(s) : s[i] = c

\* s.endswith(suffix)
EndsWith(s, suffix) ==
    /\ Len(s) >= Len(suffix)
    /\ \A i \in 1..Len(suffix) : s[Len(s) - Len(suffix) + i] = suffix[i]

\* The index of the first occurrence of c in s (c occurs in s).
FirstIndexOf(s, c) == CHOOSE i \in 1..Len(s) : s[i] = c /\ \A j \in 1..(i-1) : s[j] # c

\* s.split(c)[0]
SplitFirst(s, c) ==
    IF Contains(s, c) THEN SubSeq(s, 1, FirstIndexOf(s, c) - 1) ELSE s

\* ------------------------------------------------------------ string data
AT == "@"
MIT_SUFFIX == <<"@","m","i","t",".","e","d","u">>
K1 == <<"k","1">>
K2 == <<"k","2">>
RS256 == <<"R","S","2","5","6">>
RS512 == <<"R","S","5","1","2">>
CNH_MIT == <<"c","n","h","@","m","i","t",".","e","d","u">>
ABC_MIT == <<"a","b","c","@","m","i","t",".","e","d","u">>
X_OTHER == <<"x","@","o","t","h","e","r",".","e","d","u">>
CNH_ALUM == <<"c","n","h","@","a","l","u","m",".","m","i","t",".","e","d","u">>
BOB == <<"b","o","b">>
CNH == <<"c","n","h">>
BO_LI == <<"B","o"," ","L","i">>

\* ---------------------------------------------------------------- outcomes
\* What a call does: it returns a value (exc = "") or raises exc(msg).
Return(v) == [exc |-> "", msg |-> "", ret |-> v]
Raise(e, m) == [exc |-> e, msg |-> m, ret |-> None]

Min(S) == CHOOSE i \in S : \A j \in S : i <= j

\* ======================================================================
\* Identity resolution: the pure helpers
\* ======================================================================
\* Variant that cuts at the last '@' (rsplit); C10 does not hold of it.
get_username_from_email_RSplit(email) ==
    IF Truthy(email) /\ Contains(email, AT)
        THEN SubSeq(email, 1, (CHOOSE i \in 1..Len(email) :
                                   email[i] = AT /\ \A j \in (i+1)..Len(email) : email[j] # AT) - 1)
        ELSE email
\* BaseOIDCBackend.get_username_from_email, lines 65-77.
get_username_from_email(email) ==
    IF Truthy(email) /\ Contains(email, AT) THEN SplitFirst(email, AT) ELSE email

\* Positions of the identities whose username ends with '@mit.edu'
\* (identity.get('username', '') of lines 238-239 and 271-272).
MitIdentities(identity_set) ==
    {i \in 1..Len(identity_set) :
        EndsWith(Get(identity_set[i], "username", <<>>), MIT_SUFFIX)}

\* Variant without the break of line 242: the last MIT identity wins; C9
\* does not hold of it.
extract_mit_eppn_Last(claims) ==
    LET identity_set == Get(claims, "identity_set", <<>>)
        hit == MitIdentities(identity_set)
        eppn == IF hit = {} THEN None
                ELSE identity_set[CHOOSE i \in hit : \A j \in hit : j <= i]["username"]
    IN IF ~Truthy(eppn)
          THEN Get(claims, "preferred_username", Get(claims, "email", None))
          ELSE eppn
\* GlobusOIDCBackend.extract_mit_eppn, lines 219-249.
extract_mit_eppn(claims) ==
    LET identity_set == Get(claims, "identity_set", <<>>)
        hit == MitIdentities(identity_set)
        eppn == IF hit = {} THEN None ELSE identity_set[Min(hit)]["username"]
    IN IF ~Truthy(eppn)
          THEN Get(claims, "preferred_username", Get(claims, "email", None))
          ELSE eppn

\* Variant that never enforces (C4 does not hold of it).
validate_mit_identity_Off(claims) == TRUE
\* GlobusOIDCBackend.validate_mit_identity, lines 251-277.
validate_mit_identity(claims) ==
    IF ~MIT_IDP_REQUIRED THEN TRUE
    ELSE MitIdentities(Get(claims, "identity_set", <<>>)) # {}

\* ======================================================================
\* GlobusOIDCBackend.retrieve_matching_jwk
\* ======================================================================
\* The JWKS endpoint's answer to requests.get(jwks_url, timeout=10):
\*   reachable  FALSE: requests.get raises a RequestException (connection
\*              error, timeout)
\*   status_ok  FALSE: raise_for_status() raises HTTPError
\*   body       "unparsable": response.json() raises;
\*              "array": JSON that is no object (response.json() is a list);
\*              "object": a JSON object, value is the dict
\* json_error_is_request_exception: the class response.json() raises on a
\* body that is no JSON is requests.exceptions.JSONDecodeError, which is
\* both a RequestException and a ValueError from requests 2.27 on and a
\* plain ValueError before; the installed version decides.
\* Lines 292-302: the fetch, with its two except clauses in order; what
\* response.json() returns is kept with its JSON type.
FetchJwks(resp, json_error_is_request_exception) ==
    IF ~resp.reachable \/ ~resp.status_ok
        THEN Raise("SuspiciousOperation", "Could not fetch JWKS from identity provider")
    ELSE IF resp.body.json = "unparsable"
        THEN IF json_error_is_request_exception
                THEN Raise("SuspiciousOperation", "Could not fetch JWKS from identity provider")
                ELSE Raise("SuspiciousOperation", "Invalid JWKS response from identity provider")
    ELSE Return(resp.body)

\* Variant without the empty-list check (C2 does not hold of it).
HasNoKeys_Never(keys) == FALSE
\* Line 305: "if not keys".
HasNoKeys(keys) == keys = <<>>

\* Lines 310-316: jwt.get_unverified_header(token); a token whose header
\* cannot be decoded raises DecodeError.
DecodeHeader(token) ==
    IF ~token.decodable
        THEN Raise("SuspiciousOperation", "Could not decode ID token header")
        ELSE Return(token.header)

\* Variant that also wants the algs to agree, as the library's own
\* retrieve_matching_jwk does; C1 does not hold of it.
KidRule_AlgChecked(keys, kid, alg) ==
    LET hit == {i \in 1..Len(keys) :
                   /\ Truthy(kid)
                   /\ Get(keys[i], "kid", None) = kid
                   /\ Get(keys[i], "alg", None) = alg}
    IN IF hit = {} THEN 0 ELSE Min(hit)
\* Lines 321-328: the index of the first key whose kid is the header's
\* (truthy) kid, 0 when there is none; alg is not looked at.
KidRule(keys, kid, alg) ==
    LET hit == {i \in 1..Len(keys) : Truthy(kid) /\ Get(keys[i], "kid", None) = kid}
    IN IF hit = {} THEN 0 ELSE Min(hit)

\* Variant that takes the only key only when the algs agree; C5 does not
\* hold of it.
SingletonRule_AlgChecked(keys, alg) ==
    IF Len(keys) = 1 /\ Get(keys[1], "alg", None) = alg THEN 1 ELSE 0
\* Lines 331-333: the only key of a one-key list; alg is not looked at.
SingletonRule(keys, alg) == IF Len(keys) = 1 THEN 1 ELSE 0

\* Variant that takes the last key with the header's alg (C6 does not hold of
\* it).
AlgRule_Last(keys, alg) ==
    LET hit == {i \in 1..Len(keys) : Get(keys[i], "alg", None) = alg}
    IN IF hit = {} THEN 0 ELSE CHOOSE i \in hit : \A j \in hit : j <= i
\* Lines 336-339: the index of the first key whose alg is the header's alg,
\* 0 when there is none.
AlgRule(keys, alg) ==
    LET hit == {i \in 1..Len(keys) : Get(keys[i], "alg", None) = alg}
    IN IF hit = {} THEN 0 ELSE Min(hit)

\* Lines 320-342: the rules in priority order.
SelectKey(keys, kid, alg) ==
    IF KidRule(keys, kid, alg) # 0 THEN Return(keys[KidRule(keys, kid, alg)])
    ELSE IF SingletonRule(keys, alg) # 0 THEN Return(keys[SingletonRule(keys, alg)])
    ELSE IF AlgRule(keys, alg) # 0 THEN Return(keys[AlgRule(keys, alg)])
    ELSE Raise("SuspiciousOperation", "Could not find matching JWKS key for ID token")

\* Lines 279-342.
retrieve_matching_jwk(resp, json_error_is_request_exception, token) ==
    LET fetched == FetchJwks(resp, json_error_is_request_exception) IN
    IF fetched.exc # "" THEN fetched
    ELSE LET jwks == fetched.ret IN
    IF jwks.json = "array"
        THEN Raise("AttributeError", "'list' object has no attribute 'get'")
    ELSE LET keys == Get(jwks.value, "keys", <<>>) IN
    IF HasNoKeys(keys)
        THEN Raise("SuspiciousOperation", "JWKS contains no keys")
    ELSE LET decoded == DecodeHeader(token) IN
    IF decoded.exc # "" THEN decoded
    ELSE LET header == decoded.ret
             kid == Get(header, "kid", None)
             alg == Get(header, "alg", None)
         IN SelectKey(keys, kid, alg)

\* ---------------------------------------------------- the inputs of a call
Kids == {<<>>, K1, K2}
Algs == {RS256, RS512}
KeyRecords == {k @@ a : k \in Field("kid", Kids), a \in Field("alg", Algs)}
KeyLists == UNION {[1..n -> KeyRecords] : n \in 0..MaxKeys}
Bodies ==
    {[json |-> "unparsable", value |-> <<>>], [json |-> "array", value |-> <<>>],
     [json |-> "object", value |-> <<>>]}
    \cup {[json |-> "object", value |-> ("keys" :> ks)] : ks \in KeyLists}
Responses ==
    {[reachable |-> FALSE, status_ok |-> FALSE, body |-> [json |-> "unparsable", value |-> <<>>]]}
    \cup {[reachable |-> TRUE, status_ok |-> FALSE, body |-> [json |-> "unparsable", value |-> <<>>]]}
    \cup {[reachable |-> TRUE, status_ok |-> TRUE, body |-> b] : b \in Bodies}
Tokens ==
    {[decodable |-> FALSE, header |-> <<>>]}
    \cup {[decodable |-> TRUE, header |-> k @@ a] :
             k \in Field("kid", Kids), a \in Field("alg", Algs)}

NoCall == [op |-> "none"]

\* The request ends: the call's arguments and outcome are dropped.
Finish ==
    /\ last # NoCall
    /\ last' = NoCall
    /\ UNCHANGED <<MIT_IDP_REQUIRED, UserProfileImported, users, profiles, other, ncalls>>

\* One call of retrieve_matching_jwk; it reads and writes no shared state.
RetrieveMatchingJwk ==
    /\ last = NoCall
    /\ \E resp \in Responses, flag \in BOOLEAN, token \in Tokens :
          last' = [op |-> "retrieve_matching_jwk",
                   resp |-> resp,
                   json_error_is_request_exception |-> flag,
                   token |-> token,
                   out |-> retrieve_matching_jwk(resp, flag, token)]
    /\ UNCHANGED <<MIT_IDP_REQUIRED, UserProfileImported, users, profiles, other, ncalls>>

InitJwk ==
    /\ MIT_IDP_REQUIRED = FALSE
    /\ UserProfileImported = TRUE
    /\ users = {}
    /\ profiles = {}
    /\ last = NoCall
    /\ other = NoCall
    /\ ncalls = 0

NextJwk == RetrieveMatchingJwk \/ Finish

SpecJwk == InitJwk /\ [][NextJwk]_vars

\* ======================================================================
\* Properties of retrieve_matching_jwk (checked under SpecJwk)
\* ======================================================================
\* The error kinds of the specification, as the code raises them.
KeySourceUnavailable(out) ==
    out.exc = "SuspiciousOperation" /\ out.msg = "Could not fetch JWKS from identity provider"
KeySourceInvalid(out) ==
    /\ out.exc = "SuspiciousOperation"
    /\ out.msg \in {"Invalid JWKS response from identity provider", "JWKS contains no keys"}
TokenMalformed(out) ==
    out.exc = "SuspiciousOperation" /\ out.msg = "Could not decode ID token header"
KeyNotFound(out) ==
    out.exc = "SuspiciousOperation" /\ out.msg = "Could not find matching JWKS key for ID token"

JwkCall == last.op = "retrieve_matching_jwk"
\* The fetch succeeded and the body is a JSON object.
JwkFetched ==
    /\ JwkCall
    /\ last.resp.reachable /\ last.resp.status_ok
    /\ last.resp.body.json = "object"
LastKeys == Get(last.resp.body.value, "keys", <<>>)
\* The call got as far as the selection rules.
JwkSelecting == JwkFetched /\ LastKeys # <<>> /\ last.token.decodable
LastHeader == last.token.header
\* Positions of the keys whose kid is present and equal to the header's kid.
SameKid == {i \in 1..Len(LastKeys) :
               /\ "kid" \in DOMAIN LastKeys[i]
               /\ "kid" \in DOMAIN LastHeader
               /\ LastKeys[i]["kid"] = LastHeader["kid"]}
\* Positions of the keys whose alg equals the header's alg (as Python's ==
\* on the two .get('alg') values: an absent alg equals an absent alg).
SameAlg == {i \in 1..Len(LastKeys) :
               Get(LastKeys[i], "alg", None) = Get(LastHeader, "alg", None)}

\* C1 (as stated): whenever some key's kid equals the header's kid, the call
\* returns a record with that kid. Fails for an empty header kid.
C1_AnyEqualKidReturned ==
    (JwkSelecting /\ SameKid # {}) =>
        /\ last.out.exc = ""
        /\ \E i \in SameKid : last.out.ret = LastKeys[i]

\* C1 (amended): when the header's kid is non-empty and some key's kid equals
\* it, the call returns the first such record in list order, whatever the
\* algs are and however many keys there are.
C1_KidMatchReturned ==
    (JwkSelecting /\ Get(LastHeader, "kid", <<>>) # <<>> /\ SameKid # {}) =>
        last.out = Return(LastKeys[Min(SameKid)])

\* C1 witness: the kid match is the second key, its alg differs from the
\* header's, the first key has the header's alg, and the second is returned.
C1_Witness ==
    /\ JwkSelecting
    /\ Get(LastHeader, "kid", <<>>) # <<>>
    /\ SameKid = {2}
    /\ 1 \in SameAlg /\ 2 \notin SameAlg
    /\ last.out = Return(LastKeys[2])
    /\ LastKeys[1] # LastKeys[2]

\* C2: an empty or missing keys list fails with KeySourceInvalid, whatever
\* the token is.
C2_EmptyKeysInvalid ==
    (JwkFetched /\ LastKeys = <<>>) =>
        /\ KeySourceInvalid(last.out)
        /\ ~TokenMalformed(last.out) /\ ~KeyNotFound(last.out)

\* C2 witness: no keys field, a token whose header cannot be decoded.
C2_Witness ==
    /\ JwkFetched
    /\ "keys" \notin DOMAIN last.resp.body.value
    /\ ~last.token.decodable
    /\ KeySourceInvalid(last.out)

\* C3 (as stated): HTTP success with a body that is no JSON object with a keys
\* field fails with KeySourceInvalid. Fails for a JSON array (AttributeError)
\* and, with requests >= 2.27, for a body that is no JSON.
C3_MalformedBodyInvalid ==
    (/\ JwkCall
     /\ last.resp.reachable /\ last.resp.status_ok
     /\ last.resp.body.json \in {"unparsable", "array"}) =>
        KeySourceInvalid(last.out) /\ ~KeySourceUnavailable(last.out)

\* C5: one key and no kid match: that key is returned, whatever the algs.
C5_SingletonReturned ==
    (/\ JwkSelecting
     /\ Len(LastKeys) = 1
     /\ (~Truthy(Get(LastHeader, "kid", None)) \/ SameKid = {})) =>
        last.out = Return(LastKeys[1])

\* C5 witness: the key's kid and alg both differ from the header's.
C5_Witness ==
    /\ JwkSelecting
    /\ Len(LastKeys) = 1
    /\ Get(LastHeader, "kid", None) = K2 /\ Get(LastKeys[1], "kid", None) = K1
    /\ Get(LastHeader, "alg", None) = RS512 /\ Get(LastKeys[1], "alg", None) = RS256
    /\ last.out = Return(LastKeys[1])

\* C6: two or more keys and no kid match: the first key with the header's alg
\* is returned, and the call fails with KeyNotFound exactly when there is none.
C6_AlgFallback ==
    (/\ JwkSelecting
     /\ Len(LastKeys) >= 2
     /\ (~Truthy(Get(LastHeader, "kid", None)) \/ SameKid = {})) =>
        /\ SameAlg # {} => last.out = Return(LastKeys[Min(SameAlg)])
        /\ SameAlg = {} <=> KeyNotFound(last.out)
        /\ last.out.exc = "" =>
              Get(last.out.ret, "alg", None) = Get(LastHeader, "alg", None)

\* C6 witness: the second and third keys have the header's alg and differ;
\* the second is returned.
C6_Witness ==
    /\ JwkSelecting
    /\ Len(LastKeys) = 3
    /\ SameKid = {}
    /\ SameAlg = {2, 3}
    /\ LastKeys[2] # LastKeys[3]
    /\ Get(LastHeader, "alg", None) = RS512
    /\ last.out = Return(LastKeys[2])

\* ======================================================================
\* The pure helpers, called on their own (SpecFn)
\* ======================================================================
Alphabet == {"a", "b", AT}
Strings == UNION {[1..n -> Alphabet] : n \in 0..MaxStrLen}
EmailArgs == Strings \cup {None, CNH_MIT, X_OTHER, BOB}

Usernames == {X_OTHER, CNH_MIT, ABC_MIT, CNH_ALUM}
Identities == Field("username", Usernames)
IdentitySets == UNION {[1..n -> Identities] : n \in 0..MaxIdentities}
Emails == {<<>>, CNH_MIT, X_OTHER}
PreferredUsernames == {<<>>, BOB}
IdentityClaims ==
    {e @@ p @@ ids :
        e \in Field("email", Emails),
        p \in Field("preferred_username", PreferredUsernames),
        ids \in Field("identity_set", IdentitySets)}

GetUsernameFromEmail ==
    /\ last = NoCall
    /\ \E email \in EmailArgs :
          last' = [op |-> "get_username_from_email",
                   email |-> email,
                   out |-> Return(get_username_from_email(email))]
    /\ UNCHANGED <<MIT_IDP_REQUIRED, UserProfileImported, users, profiles, other, ncalls>>

ExtractMitEppn ==
    /\ last = NoCall
    /\ \E claims \in IdentityClaims :
          last' = [op |-> "extract_mit_eppn",
                   claims |-> claims,
                   out |-> Return(extract_mit_eppn(claims))]
    /\ UNCHANGED <<MIT_IDP_REQUIRED, UserProfileImported, users, profiles, other, ncalls>>

ValidateMitIdentity ==
    /\ last = NoCall
    /\ \E claims \in IdentityClaims :
          last' = [op |-> "validate_mit_identity",
                   claims |-> claims,
                   out |-> Return(validate_mit_identity(claims))]
    /\ UNCHANGED <<MIT_IDP_REQUIRED, UserProfileImported, users, profiles, other, ncalls>>

InitFn ==
    /\ MIT_IDP_REQUIRED \in BOOLEAN
    /\ UserProfileImported = TRUE
    /\ users = {}
    /\ profiles = {}
    /\ last = NoCall
    /\ other = NoCall
    /\ ncalls = 0

NextFn == GetUsernameFromEmail \/ ExtractMitEppn \/ ValidateMitIdentity \/ Finish

SpecFn == InitFn /\ [][NextFn]_vars

\* C9: extract_mit_eppn returns the username of the first identity of
\* identity_set that ends with '@mit.edu'; without one it returns the
\* preferred_username claim when present, else the email claim, else None.
C9_FirstMitIdentity ==
    last.op = "extract_mit_eppn" =>
        LET ids == Get(last.claims, "identity_set", <<>>)
            mit == {i \in 1..Len(ids) :
                       /\ "username" \in DOMAIN ids[i]
                       /\ Len(ids[i]["username"]) >= Len(MIT_SUFFIX)
                       /\ SubSeq(ids[i]["username"],
                                 Len(ids[i]["username"]) - Len(MIT_SUFFIX) + 1,
                                 Len(ids[i]["username"])) = MIT_SUFFIX}
        IN IF mit # {}
              THEN \E i \in mit : /\ \A j \in mit : i <= j
                                  /\ last.out = Return(ids[i]["username"])
              ELSE last.out.ret =
                      IF "preferred_username" \in DOMAIN last.claims
                          THEN last.claims["preferred_username"]
                      ELSE IF "email" \in DOMAIN last.claims
                          THEN last.claims["email"]
                      ELSE None

\* C9 witness: the specification's example, a non-MIT identity before an MIT
\* one, with a preferred_username and an email that are not used.
C9_Witness ==
    /\ last.op = "extract_mit_eppn"
    /\ Get(last.claims, "identity_set", <<>>) =
          <<"username" :> X_OTHER, "username" :> CNH_MIT>>
    /\ Get(last.claims, "preferred_username", None) = BOB
    /\ Get(last.claims, "email", None) = X_OTHER
    /\ last.out = Return(CNH_MIT)

\* C10: get_username_from_email returns the part before the first '@' of a
\* string that has one (a result without '@'), returns any other string
\* unchanged, and is idempotent.
C10_UsernameStem ==
    (last.op = "get_username_from_email" /\ last.email # None) =>
        LET e == last.email
            r == last.out.ret
        IN /\ Contains(e, AT) =>
                /\ ~Contains(r, AT)
                /\ Len(r) < Len(e)
                /\ e[Len(r) + 1] = AT
                /\ \A i \in 1..Len(r) : r[i] = e[i]
           /\ ~Contains(e, AT) => r = e
           /\ get_username_from_email(r) = r

\* C10 witness: a string with two '@', cut at the first.
C10_Witness ==
    /\ last.op = "get_username_from_email"
    /\ last.email = <<"a", AT, AT>>
    /\ last.out = Return(<<"a">>)

\* ======================================================================
\* User provisioning and lookup (Spec)
\* ======================================================================
\* A row of UserModel.objects is [username, email, first_name, last_name,
\* is_active]; usernames are unique (the user table's constraint).
\*
\* The backends run in several workers at once and open no transaction:
\* every INSERT, UPDATE and SELECT of a call is committed or answered on its
\* own, and the statements of two calls interleave. A call is therefore a
\* sequence of steps: the code up to its first statement, which touches no
\* shared state, and then one step per database statement.
\*
\* A call in flight is a record:
\*   op, backend, claims, user   the method and its arguments
\*   pc        the statement it makes next: "insert" (objects.create_user),
\*             "save" (user.save()), "profile" (get_or_create), "username"
\*             and "email" (the two filters); "done" once it has returned
\*             or raised
\*   mem       the user object the call holds in memory
\*   username  the username the first lookup asks for
\*   email     the email the second lookup asks for (None: no such lookup)
\*   out       the outcome, once pc = "done"; filter_users_by_claims returns
\*             a QuerySet, which holds no rows until it is read
\*   writes    the statements it has committed, in order
\*   queries   the lookups it has made, in order, each with the rows it got
\*             and the table as it was when the lookup was answered
\*   read      what the caller got when it read the QuerySet returned, with
\*             the table as it was then (empty until it reads)
NoRow ==
    [username |-> None, email |-> None, first_name |-> <<>>, last_name |-> <<>>,
     is_active |-> FALSE]

Call(op, backend, claims, user) ==
    [op |-> op, backend |-> backend, claims |-> claims, user |-> user,
     pc |-> "start", mem |-> NoRow, username |-> None, email |-> None,
     out |-> Return(None), writes |-> <<>>, queries |-> <<>>, read |-> <<>>]

\* The call returns or raises.
Done(c, out) == [c EXCEPT !.pc = "done", !.out = out]

\* What a statement does: the call after it and the tables after it.
Step(c, us, ps) == [call |-> c, users |-> us, profiles |-> ps]

\* name.split(' ', 1), lines 110 and 381.
SplitOnce(s, c) ==
    IF Contains(s, c)
        THEN <<SubSeq(s, 1, FirstIndexOf(s, c) - 1),
               SubSeq(s, FirstIndexOf(s, c) + 1, Len(s))>>
        ELSE <<s>>

\* Lines 105-115 and 376-386: the user object after the names and is_active
\* are set on it, before save().
NewRow(username, email, claims) ==
    LET given == Get(claims, "given_name", <<>>)
        family == Get(claims, "family_name", <<>>)
        use_name == ~Truthy(given) /\ Truthy(Get(claims, "name", None))
        name_parts == IF use_name THEN SplitOnce(claims["name"], " ") ELSE <<>>
    IN [username |-> username,
        email |-> email,
        first_name |-> IF use_name THEN name_parts[1] ELSE given,
        last_name |-> IF use_name /\ Len(name_parts) > 1 THEN name_parts[2] ELSE family,
        is_active |-> TRUE]

\* The call goes on to objects.create_user(username=..., email=...).
ToInsert(c, username, email) ==
    [c EXCEPT !.pc = "insert", !.mem = NewRow(username, email, c.claims)]

\* Variant without the check of lines 90-92 (C7 does not hold of it).
Base_create_user_Unchecked(c) ==
    LET email == Get(c.claims, "email", <<>>)
    IN ToInsert(c, get_username_from_email(email), email)
\* BaseOIDCBackend.create_user, lines 79-98: up to its first statement.
Base_create_user(c) ==
    LET email == Get(c.claims, "email", <<>>)
    IN IF ~Truthy(email)
          THEN Done(c, Raise("ValueError", "Email claim is required for user creation"))
          ELSE ToInsert(c, get_username_from_email(email), email)

\* Variant that derives the username from the email claim whenever there is
\* one, as the base backend does (C11 does not hold of it).
Globus_create_user_EmailFirst(c) ==
    IF ~validate_mit_identity(c.claims)
        THEN Done(c, Raise("PermissionDenied", "Authentication requires MIT credentials"))
    ELSE LET eppn == extract_mit_eppn(c.claims)
             email == Get(c.claims, "email", eppn)
    IN IF Truthy(email)
          THEN ToInsert(c, get_username_from_email(email), email)
       ELSE IF Truthy(eppn) /\ Contains(eppn, AT)
          THEN ToInsert(c, get_username_from_email(eppn), email)
       ELSE Done(c, Raise("SuspiciousOperation", "No valid identifier found in claims"))
\* GlobusOIDCBackend.create_user, lines 344-368: up to its first statement.
Globus_create_user(c) ==
    IF ~validate_mit_identity(c.claims)
        THEN Done(c, Raise("PermissionDenied", "Authentication requires MIT credentials"))
    ELSE LET eppn == extract_mit_eppn(c.claims)
             email == Get(c.claims, "email", eppn)
    IN IF Truthy(eppn) /\ Contains(eppn, AT)
          THEN ToInsert(c, get_username_from_email(eppn), email)
       ELSE IF Truthy(email)
          THEN ToInsert(c, get_username_from_email(email), email)
       ELSE Done(c, Raise("SuspiciousOperation", "No valid identifier found in claims"))

\* Lines 99-115 and 370-386: UserModel.objects.create_user(username, email)
\* inserts and commits a row that has no names yet and is active (the model's
\* default); a username that is already taken makes it raise IntegrityError.
\* The names are then set on the object in memory only.
InsertUser(c) ==
    IF \E u \in users : u.username = c.mem.username
        THEN Step(Done(c, Raise("IntegrityError",
                                "UNIQUE constraint failed: auth_user.username")),
                  users, profiles)
        ELSE Step([c EXCEPT !.pc = "save", !.writes = Append(@, "insert_user")],
                  users \cup {[c.mem EXCEPT !.first_name = <<>>, !.last_name = <<>>]},
                  profiles)

\* Lines 116-121, 138-141, 387-392 and 413-416: user.save() writes every
\* field of the object in memory over the row of that user; the call goes on
\* to the profile when UserProfile was imported and returns the user if not.
SaveUser(c) ==
    Step([c EXCEPT !.pc = IF UserProfileImported THEN "profile" ELSE "done",
                   !.out = IF UserProfileImported THEN @ ELSE Return(c.mem.username),
                   !.writes = Append(@, "save_user")],
         {u \in users : u.username # c.mem.username} \cup {c.mem},
         profiles)

\* Lines 122-125, 142-144, 393-396 and 417-419: get_or_create inserts the
\* user's profile unless it is there, and the call returns the user.
EnsureProfile(c) ==
    Step([c EXCEPT !.pc = "done", !.out = Return(c.mem.username),
                   !.writes = IF c.mem.username \in profiles
                                 THEN @ ELSE Append(@, "insert_profile")],
         users, profiles \cup {c.mem.username})

\* BaseOIDCBackend.update_user, lines 127-144, up to its first statement:
\* save() when the user object it was given is not active, else get_or_create
\* when UserProfile was imported, else none.
Base_update_user(c) ==
    LET held == [c EXCEPT !.mem = [c.user EXCEPT !.is_active = TRUE]]
    IN IF ~c.user.is_active THEN [held EXCEPT !.pc = "save"]
       ELSE IF UserProfileImported THEN [held EXCEPT !.pc = "profile"]
       ELSE Done(held, Return(c.user.username))

\* GlobusOIDCBackend.update_user, lines 398-419, up to its first statement.
Globus_update_user(c) ==
    IF ~validate_mit_identity(c.claims)
        THEN Done(c, Raise("PermissionDenied", "Authentication requires MIT credentials"))
    ELSE LET held == [c EXCEPT !.mem = [c.user EXCEPT !.is_active = TRUE]]
    IN IF ~c.user.is_active THEN [held EXCEPT !.pc = "save"]
       ELSE IF UserProfileImported THEN [held EXCEPT !.pc = "profile"]
       ELSE Done(held, Return(c.user.username))

\* UserModel.objects.filter(username=...) and filter(email=...).
ByUsername(username) == {u \in users : u.username = username}
ByEmail(email) == {u \in users : u.email = email}

\* A QuerySet is a query not yet made: filter(username=key), filter(email=key)
\* or objects.none(). Its rows are selected when it is read, from the table
\* as it is then; objects.none() has no rows and selects nothing.
QuerySet(kind, key) == [kind |-> kind, key |-> key]
NoneQuerySet == QuerySet("none", None)
Rows(qs) ==
    IF qs.kind = "username" THEN ByUsername(qs.key)
    ELSE IF qs.kind = "email" THEN ByEmail(qs.key)
    ELSE {}

\* A SELECT as the call's log keeps it: the rows it found and the table it
\* found them in.
Query(kind, key, rows) == [kind |-> kind, key |-> key, rows |-> rows, table |-> users]

\* The call goes on to its lookups: by username when there is one to ask
\* for, else by email when the email claim is not empty, else none.
ToLookup(c, username, email) ==
    IF username # None
        THEN [c EXCEPT !.pc = "username", !.username = username,
                       !.email = IF Truthy(email) THEN email ELSE None]
    ELSE IF Truthy(email) THEN [c EXCEPT !.pc = "email", !.email = email]
    ELSE Done(c, Return(NoneQuerySet))

\* BaseOIDCBackend.filter_users_by_claims, lines 146-157 (and 169-170): up
\* to its first lookup.
Base_filter_users_by_claims(c) ==
    LET email == Get(c.claims, "email", None)
    IN IF ~Truthy(email) THEN Done(c, Return(NoneQuerySet))
       ELSE ToLookup(c, get_username_from_email(email), email)

\* Variant that makes the lookup by email only (C8 does not hold of it).
Globus_filter_users_by_claims_EmailFirst(c) ==
    IF ~validate_mit_identity(c.claims) THEN Done(c, Return(NoneQuerySet))
    ELSE ToLookup(c, None, Get(c.claims, "email", None))
\* GlobusOIDCBackend.filter_users_by_claims, lines 421-436 (and 443-444,
\* 450-451): up to its first lookup.
Globus_filter_users_by_claims(c) ==
    IF ~validate_mit_identity(c.claims) THEN Done(c, Return(NoneQuerySet))
    ELSE LET eppn == extract_mit_eppn(c.claims)
             email == Get(c.claims, "email", None)
    IN IF Truthy(eppn) /\ Contains(eppn, AT)
          THEN ToLookup(c, get_username_from_email(eppn), email)
          ELSE ToLookup(c, None, email)

\* Lines 158-161 and 437-440: the filter by username and its exists(), the
\* one SELECT of the step. When exists() found a row the call returns the
\* QuerySet, unread; else it goes on to the filter by email when the email
\* claim is not empty, and returns objects.none() if it is.
UsernameLookup(c) ==
    LET users_ == QuerySet("username", c.username)
        asked == [c EXCEPT !.queries = Append(@, Query("username", c.username, Rows(users_)))]
    IN Step(IF Rows(users_) # {} THEN Done(asked, Return(users_))
            ELSE IF c.email # None THEN [asked EXCEPT !.pc = "email"]
            ELSE Done(asked, Return(NoneQuerySet)),
            users, profiles)

\* Lines 164-170 and 445-451: the filter by email and its exists(); the call
\* returns the QuerySet, unread, when exists() found a row, and objects.none()
\* when it found none.
EmailLookup(c) ==
    LET users_ == QuerySet("email", c.email)
        asked == [c EXCEPT !.queries = Append(@, Query("email", c.email, Rows(users_)))]
    IN Step(Done(asked, Return(IF Rows(users_) # {} THEN users_ ELSE NoneQuerySet)),
            users, profiles)

\* The caller reads the QuerySet it was returned (len(users), users[0]): the
\* rows are selected now, and kept by the QuerySet from then on.
ReadQuerySet(c) ==
    Step([c EXCEPT !.read = <<[rows |-> Rows(c.out.ret), table |-> users]>>],
         users, profiles)

\* ------------------------------------------------------ the claims received
AuthIdentitySets ==
    {<<"username" :> X_OTHER>>, <<"username" :> X_OTHER, "username" :> CNH_MIT>>}
Claims ==
    {e @@ p @@ ids @@ ("name" :> BO_LI) :
        e \in Field("email", {<<>>, X_OTHER}),
        p \in Field("preferred_username", {BOB}),
        ids \in Field("identity_set", AuthIdentitySets)}

\* A user made outside OIDC login (the ModelBackend's), not active, no profile.
Preexisting ==
    [username |-> CNH, email |-> CNH_MIT, first_name |-> <<>>, last_name |-> <<>>,
     is_active |-> FALSE]

\* ---------------------------------------------------------------- actions
Workers == {"first", "second"}
CallOf(w) == IF w = "first" THEN last ELSE other
Running(w) == CallOf(w) # NoCall /\ CallOf(w).pc # "done"

\* Of the second worker's call only what its remaining steps need is kept.
Kept(c) ==
    IF c.pc = "done" THEN [op |-> "", pc |-> "done"]
    ELSE [c EXCEPT !.op = "", !.backend = "", !.claims = <<>>, !.user = NoRow,
                   !.writes = <<>>, !.queries = <<>>]

\* Worker w goes on with call c.
Holds(w, c) ==
    IF w = "first" THEN last' = c /\ other' = other
                   ELSE other' = Kept(c) /\ last' = last

\* Worker w is free to take a call.
Free(w) == CallOf(w) = NoCall /\ ncalls < MaxCalls

\* Worker w takes call c, which has run up to its first statement.
Begin(w, c) ==
    /\ ncalls' = ncalls + 1
    /\ Holds(w, c)
    /\ UNCHANGED <<MIT_IDP_REQUIRED, UserProfileImported, users, profiles>>

\* Worker w's call makes its next statement, which is committed.
Commit(w, step) ==
    /\ Holds(w, step.call)
    /\ users' = step.users
    /\ profiles' = step.profiles
    /\ UNCHANGED <<MIT_IDP_REQUIRED, UserProfileImported, ncalls>>

BaseCreateUser ==
    \E w \in Workers, claims \in Claims :
        /\ Free(w)
        /\ Begin(w, Base_create_user(Call("create_user", "Base", claims, NoRow)))

GlobusCreateUser ==
    \E w \in Workers, claims \in Claims :
        /\ Free(w)
        /\ Begin(w, Globus_create_user(Call("create_user", "Globus", claims, NoRow)))

\* update_user is handed a user object that was read from the table.
BaseUpdateUser ==
    \E w \in Workers, claims \in Claims, u \in users :
        /\ Free(w)
        /\ Begin(w, Base_update_user(Call("update_user", "Base", claims, u)))

GlobusUpdateUser ==
    \E w \in Workers, claims \in Claims, u \in users :
        /\ Free(w)
        /\ Begin(w, Globus_update_user(Call("update_user", "Globus", claims, u)))

BaseFilterUsersByClaims ==
    \E w \in Workers, claims \in Claims :
        /\ Free(w)
        /\ Begin(w, Base_filter_users_by_claims(
                     Call("filter_users_by_claims", "Base", claims, NoRow)))

GlobusFilterUsersByClaims ==
    \E w \in Workers, claims \in Claims :
        /\ Free(w)
        /\ Begin(w, Globus_filter_users_by_claims(
                     Call("filter_users_by_claims", "Globus", claims, NoRow)))

\* The statements, each a step of its own.
UserInsert ==
    \E w \in Workers :
        Running(w) /\ CallOf(w).pc = "insert" /\ Commit(w, InsertUser(CallOf(w)))

UserSave ==
    \E w \in Workers :
        Running(w) /\ CallOf(w).pc = "save" /\ Commit(w, SaveUser(CallOf(w)))

ProfileGetOrCreate ==
    \E w \in Workers :
        Running(w) /\ CallOf(w).pc = "profile" /\ Commit(w, EnsureProfile(CallOf(w)))

FilterByUsername ==
    \E w \in Workers :
        Running(w) /\ CallOf(w).pc = "username" /\ Commit(w, UsernameLookup(CallOf(w)))

FilterByEmail ==
    \E w \in Workers :
        Running(w) /\ CallOf(w).pc = "email" /\ Commit(w, EmailLookup(CallOf(w)))

\* A call that returned a QuerySet has it read by its caller, at any time
\* between the return and the end of the request.
QuerySetRead ==
    \E w \in Workers :
        /\ CallOf(w) # NoCall
        /\ CallOf(w).pc = "done"
        /\ CallOf(w).op = "filter_users_by_claims"
        /\ CallOf(w).out.exc = ""
        /\ CallOf(w).read = <<>>
        /\ Commit(w, ReadQuerySet(CallOf(w)))

\* The database does not carry out the statement a call is about to make:
\* the exception leaves the call, and what the call has committed stays.
StatementFails ==
    \E w \in Workers :
        /\ Running(w)
        /\ Commit(w, Step(Done(CallOf(w), Raise("DatabaseError", "")), users, profiles))

\* The request ends: the worker is free again.
EndRequest ==
    \E w \in Workers :
        /\ CallOf(w) # NoCall /\ CallOf(w).pc = "done"
        /\ IF w = "first" THEN last' = NoCall /\ other' = other
                          ELSE other' = NoCall /\ last' = last
        /\ UNCHANGED <<MIT_IDP_REQUIRED, UserProfileImported, users, profiles, ncalls>>

Init ==
    /\ MIT_IDP_REQUIRED \in BOOLEAN
    /\ UserProfileImported \in BOOLEAN
    /\ users \in {{}, {Preexisting}}
    /\ profiles = {}
    /\ last = NoCall
    /\ other = NoCall
    /\ ncalls = 0

Next ==
    \/ BaseCreateUser \/ BaseUpdateUser \/ BaseFilterUsersByClaims
    \/ GlobusCreateUser \/ GlobusUpdateUser \/ GlobusFilterUsersByClaims
    \/ UserInsert \/ UserSave \/ ProfileGetOrCreate
    \/ FilterByUsername \/ FilterByEmail \/ QuerySetRead
    \/ StatementFails
    \/ EndRequest

Spec == Init /\ [][Next]_vars

\* ======================================================================
\* Properties of provisioning and lookup (checked under Spec)
\* ======================================================================
\* They are stated of the first worker's call, whatever the second worker
\* does meanwhile.
\* s ends with '@mit.edu', spelled out on the characters.
IsMitName(s) ==
    /\ Len(s) >= Len(MIT_SUFFIX)
    /\ SubSeq(s, Len(s) - Len(MIT_SUFFIX) + 1, Len(s)) = MIT_SUFFIX
\* The claims' identity_set holds an identity whose username ends with '@mit.edu'.
HasMitIdentity(claims) ==
    /\ "identity_set" \in DOMAIN claims
    /\ \E i \in 1..Len(claims["identity_set"]) :
          /\ "username" \in DOMAIN claims["identity_set"][i]
          /\ IsMitName(claims["identity_set"][i]["username"])
Finished == last.pc = "done"
\* The call ended because the database failed on one of its statements.
Failed == Finished /\ last.out.exc = "DatabaseError"
\* The call has committed no statement.
NothingWritten == last.writes = <<>>
Wrote(kind) == \E i \in 1..Len(last.writes) : last.writes[i] = kind
PermissionDenied(out) == out.exc = "PermissionDenied"
\* The "no usable identifier" failure of create_user, as each backend raises it.
MissingIdentifier(out) ==
    \/ out.exc = "ValueError" /\ out.msg = "Email claim is required for user creation"
    \/ out.exc = "SuspiciousOperation" /\ out.msg = "No valid identifier found in claims"

\* C4: with MIT_IDP_REQUIRED and no '@mit.edu' identity in identity_set, the
\* Globus backend's create_user and update_user raise PermissionDenied without
\* committing any statement, and its filter_users_by_claims makes no lookup
\* and returns objects.none(), which is empty whenever it is read, whatever
\* the email claim is and whatever other calls are in flight.
C4_EnforcementRejects ==
    (/\ last.op \in {"create_user", "update_user", "filter_users_by_claims"}
     /\ last.backend = "Globus"
     /\ MIT_IDP_REQUIRED
     /\ ~HasMitIdentity(last.claims)) =>
        /\ Finished
        /\ NothingWritten
        /\ last.queries = <<>>
        /\ last.op \in {"create_user", "update_user"} => PermissionDenied(last.out)
        /\ last.op = "filter_users_by_claims" =>
              /\ last.out = Return(NoneQuerySet)
              /\ \A i \in 1..Len(last.read) : last.read[i].rows = {}

\* C4 witness: an inactive user without a profile, claims with a valid email
\* and only a non-MIT identity; update_user is refused and the user is left
\* inactive and without a profile.
C4_Witness ==
    /\ last.op = "update_user" /\ last.backend = "Globus"
    /\ MIT_IDP_REQUIRED /\ UserProfileImported
    /\ Get(last.claims, "email", None) = X_OTHER
    /\ Get(last.claims, "identity_set", <<>>) = <<"username" :> X_OTHER>>
    /\ PermissionDenied(last.out)
    /\ last.user = Preexisting
    /\ Preexisting \in users
    /\ CNH \notin profiles

\* The claims carry an identifier: a non-empty email, an '@mit.edu' identity,
\* or a non-empty preferred_username (the fallback EPPN).
HasIdentifier(claims) ==
    \/ Truthy(Get(claims, "email", None))
    \/ HasMitIdentity(claims)
    \/ Truthy(Get(claims, "preferred_username", None))
\* The call inserted a row into the user table.
UserCreated == last.op = "create_user" /\ Wrote("insert_user")

\* C7 (as stated): create_user on claims without identifier raises the
\* MissingIdentifier error and writes nothing, and a row is only created from
\* claims with an identifier. Fails under enforcement, where the Globus
\* backend raises PermissionDenied first.
C7_MissingIdentifierAborts ==
    /\ (last.op = "create_user" /\ ~HasIdentifier(last.claims)) =>
          Finished /\ MissingIdentifier(last.out) /\ NothingWritten
    /\ UserCreated => HasIdentifier(last.claims)

\* C7 (amended): create_user on claims without identifier writes nothing and
\* raises the MissingIdentifier error, or PermissionDenied when it is the
\* Globus backend with MIT_IDP_REQUIRED; a row is only created from claims
\* with an identifier.
C7_NoIdentifierAborts ==
    /\ (last.op = "create_user" /\ ~HasIdentifier(last.claims)) =>
          /\ Finished
          /\ NothingWritten
          /\ IF last.backend = "Globus" /\ MIT_IDP_REQUIRED
                THEN PermissionDenied(last.out)
                ELSE MissingIdentifier(last.out)
    /\ UserCreated => HasIdentifier(last.claims)

\* C7 witness: the Globus backend without enforcement, claims whose email is
\* present and empty, without preferred_username, whose identities are not
\* MIT; the call raises and a user of the table is left as it was.
C7_Witness ==
    /\ last.op = "create_user" /\ last.backend = "Globus"
    /\ ~MIT_IDP_REQUIRED
    /\ "email" \in DOMAIN last.claims /\ last.claims["email"] = <<>>
    /\ "preferred_username" \notin DOMAIN last.claims
    /\ Get(last.claims, "identity_set", <<>>) = <<"username" :> X_OTHER>>
    /\ ~HasIdentifier(last.claims)
    /\ MissingIdentifier(last.out)
    /\ NothingWritten
    /\ users = {Preexisting}

\* The primary identifier of a lookup: the email claim for the base backend,
\* the extracted EPPN for the Globus backend; and whether the username lookup
\* applies to it.
PrimaryIdentifier ==
    IF last.backend = "Base" THEN Get(last.claims, "email", None)
    ELSE extract_mit_eppn(last.claims)
UsernameLookupApplies ==
    /\ Truthy(PrimaryIdentifier)
    /\ last.backend = "Globus" => Contains(PrimaryIdentifier, AT)
EmailLookupApplies == Truthy(Get(last.claims, "email", None))
\* name is the part of id before its first '@' (all of id when it has none).
IsLocalPart(name, id) ==
    /\ ~Contains(name, AT)
    /\ IF Contains(id, AT)
          THEN Len(name) < Len(id) /\ id[Len(name) + 1] = AT
               /\ \A i \in 1..Len(name) : name[i] = id[i]
          ELSE name = id
\* The users of a table that match by username, and by email.
MatchByUsername(table) == {u \in table : IsLocalPart(u.username, PrimaryIdentifier)}
MatchByEmail(table) == {u \in table : u.email = last.claims["email"]}
LookupPasses ==
    /\ last.op = "filter_users_by_claims"
    /\ last.backend = "Globus" /\ MIT_IDP_REQUIRED => HasMitIdentity(last.claims)
\* The lookups the claims call for, in the order of the specification.
LookupOrder ==
    (IF UsernameLookupApplies THEN <<"username">> ELSE <<>>)
    \o (IF EmailLookupApplies THEN <<"email">> ELSE <<>>)
\* The lookups made that found a user.
Hits == {i \in 1..Len(last.queries) : last.queries[i].rows # {}}
\* The users of a table that a lookup of the given kind matches.
Match(kind, table) ==
    IF kind = "username" THEN MatchByUsername(table) ELSE MatchByEmail(table)
\* The call has returned a QuerySet and its caller has read it.
WasRead == Len(last.read) = 1

\* C8: filter_users_by_claims makes its lookups in the order username (the
\* local part of the primary identifier, when it applies), email (the email
\* claim, when there is one); each is answered from the table as it is when
\* the lookup is made; a lookup that finds users is the last, and the call
\* returns that lookup as a QuerySet; the call returns objects.none() only
\* after every lookup that applies found none. The QuerySet of a lookup that
\* found users, read at any later time, holds the users that match that same
\* lookup in the table as it is then: every user the lookup found is among
\* them, so it is not empty, and when it is the username lookup no user that
\* matches by email alone is.
C8_UsernameThenEmail ==
    LookupPasses =>
        LET q == last.queries
        IN /\ Len(q) <= Len(LookupOrder)
           /\ \A i \in 1..Len(q) :
                /\ q[i].kind = LookupOrder[i]
                /\ q[i].rows = Match(q[i].kind, q[i].table)
                /\ i < Len(q) => q[i].rows = {}
           /\ (Finished /\ ~Failed) =>
                /\ Len(last.read) <= 1
                /\ IF Hits # {}
                      THEN /\ last.out = Return(QuerySet(q[Len(q)].kind, q[Len(q)].key))
                           /\ \A i \in 1..Len(last.read) :
                                /\ last.read[i].rows = Match(q[Len(q)].kind, last.read[i].table)
                                /\ \A u \in q[Len(q)].rows :
                                      \E v \in last.read[i].rows : v.username = u.username
                      ELSE /\ Len(q) = Len(LookupOrder)
                           /\ last.out = Return(NoneQuerySet)
                           /\ \A i \in 1..Len(last.read) : last.read[i].rows = {}
           /\ ~Finished => Hits = {} /\ Len(q) < Len(LookupOrder) /\ last.read = <<>>

\* C8 witness: the Globus backend; one user matches by username, a different
\* user matches by email, the QuerySet returned is the username lookup, and
\* its caller has read it: it holds the first user and not the second.
C8_Witness ==
    /\ LookupPasses /\ last.backend = "Globus" /\ Finished /\ ~Failed
    /\ LookupOrder = <<"username", "email">>
    /\ Len(last.queries) = 1
    /\ last.queries[1].rows # {}
    /\ last.out = Return(QuerySet("username", CNH))
    /\ WasRead
    /\ MatchByEmail(last.read[1].table) # {}
    /\ MatchByEmail(last.read[1].table) \cap last.read[1].rows = {}
    /\ last.read[1].rows = {Preexisting}

\* The username of the first identity of identity_set that ends with
\* '@mit.edu' (the claims hold one).
FirstMitName(claims) ==
    LET ids == claims["identity_set"]
        first == CHOOSE i \in 1..Len(ids) :
                    /\ "username" \in DOMAIN ids[i] /\ IsMitName(ids[i]["username"])
                    /\ \A j \in 1..(i-1) :
                          ~("username" \in DOMAIN ids[j] /\ IsMitName(ids[j]["username"]))
    IN ids[first]["username"]
GlobusEnforced(op) == last.op = op /\ last.backend = "Globus" /\ MIT_IDP_REQUIRED

\* C11: with MIT_IDP_REQUIRED, every row the Globus backend's create_user
\* inserts comes from claims with an '@mit.edu' identity and has as username
\* the local part of the first such identity, and the QuerySet its
\* filter_users_by_claims returns from the username lookup asks for that
\* username, so that every user read from it has it; the preferred_username
\* and email claims never decide the username.
C11_EnforcedUsernameFromMitIdentity ==
    /\ (GlobusEnforced("create_user") /\ Wrote("insert_user")) =>
          /\ HasMitIdentity(last.claims)
          /\ IsLocalPart(last.mem.username, FirstMitName(last.claims))
          /\ \E u \in users : u.username = last.mem.username
          /\ (Finished /\ ~Failed) => last.out = Return(last.mem.username)
    /\ (GlobusEnforced("filter_users_by_claims") /\ last.queries # <<>>) =>
          /\ HasMitIdentity(last.claims)
          /\ last.queries[1].kind = "username"
          /\ IsLocalPart(last.queries[1].key, FirstMitName(last.claims))
          /\ (Finished /\ ~Failed /\ last.out.ret.kind = "username") =>
                /\ IsLocalPart(last.out.ret.key, FirstMitName(last.claims))
                /\ \A i \in 1..Len(last.read) : \A u \in last.read[i].rows :
                      IsLocalPart(u.username, FirstMitName(last.claims))

\* C11 witness: enforcement on; the claims hold a non-MIT identity before the
\* MIT one, an email and a preferred_username with other local parts; the row
\* inserted is cnh, and the call has returned it.
C11_Witness ==
    /\ GlobusEnforced("create_user") /\ Finished
    /\ Get(last.claims, "identity_set", <<>>) =
          <<"username" :> X_OTHER, "username" :> CNH_MIT>>
    /\ Get(last.claims, "email", None) = X_OTHER
    /\ Get(last.claims, "preferred_username", None) = BOB
    /\ last.out = Return(CNH)
    /\ last.writes[1] = "insert_user"
    /\ \E u \in users : u.username = CNH /\ u.email = X_OTHER

====
